---- MODULE Spec2Model ----
(***************************************************************************)
(* Model of chisel's internal/scripts package: the Content value exposed   *)
(* to Starlark mutation scripts (read, write, list), the path resolver     *)
(* ContentValue.RealPath, and the cancellable I/O helpers SafeReadFile and *)
(* SafeWriteFile.                                                          *)
(*                                                                         *)
(* Strings are sequences of one-character strings, so that the path        *)
(* functions of path/filepath (Clean, Join, Dir, Rel, IsAbs) and of        *)
(* strings (HasPrefix, HasSuffix) are computed the way the Go code         *)
(* computes them.  "/r/../e" is <<"/","r","/",".",".","/","e">>.           *)
(***************************************************************************)
EXTENDS Naturals, Sequences, FiniteSets, TLC

VARIABLES
    c,        \* the ContentValue: RootDir, CheckRead, CheckWrite, OnWrite
    fs,       \* the filesystem: location -> node
    thread,   \* the starlark.Thread: required safety, cancellation, steps, allocs
    last,     \* the outcome of the last operation, with the events it caused
    nops,     \* number of operations performed so far
    io,       \* the state of one SafeReadFile / SafeWriteFile call in progress
    run       \* the state of one call of Run: the script and where it is at

vars == <<c, fs, thread, last, nops, io, run>>

(***************************************************************************)
(* strings                                                                 *)
(***************************************************************************)
\* The one element of a singleton set.  { e(x) : x \in {v} } names the value
\* v once in e, however often e uses it.
Only(S) == CHOOSE x \in S : TRUE

Sep == "/"

HasPrefix(s, prefix) ==
    /\ Len(prefix) <= Len(s)
    /\ SubSeq(s, 1, Len(prefix)) = prefix

HasSuffix(s, suffix) ==
    /\ Len(suffix) <= Len(s)
    /\ SubSeq(s, Len(s) - Len(suffix) + 1, Len(s)) = suffix

\* The components of s between separators, empty ones included.
RECURSIVE SplitFrom(_, _, _)
SplitFrom(s, i, cur) ==
    IF i > Len(s) THEN <<cur>>
    ELSE IF s[i] = Sep THEN <<cur>> \o SplitFrom(s, i + 1, <<>>)
    ELSE SplitFrom(s, i + 1, Append(cur, s[i]))

Components(s) == SplitFrom(s, 1, <<>>)

RECURSIVE JoinSep(_)
JoinSep(comps) ==
    IF comps = <<>> THEN <<>>
    ELSE IF Len(comps) = 1 THEN comps[1]
    ELSE comps[1] \o <<Sep>> \o JoinSep(Tail(comps))

Dot == <<".">>
DotDot == <<".", ".">>

(***************************************************************************)
(* path/filepath                                                           *)
(***************************************************************************)
IsAbsAlways(path) == TRUE

IsAbs(path) == HasPrefix(path, <<Sep>>)

\* filepath.Clean's pass over the components: empty and "." components are
\* dropped, ".." removes the component before it, is dropped at the root
\* of a rooted path and is kept at the start of a relative one.
RECURSIVE CleanComps(_, _, _)
CleanComps(comps, out, rooted) ==
    IF comps = <<>> THEN out
    ELSE LET h == Head(comps)
             t == Tail(comps)
         IN  IF h = <<>> \/ h = Dot THEN CleanComps(t, out, rooted)
             ELSE IF h = DotDot
             THEN IF out # <<>> /\ out[Len(out)] # DotDot
                  THEN CleanComps(t, SubSeq(out, 1, Len(out) - 1), rooted)
                  ELSE IF rooted THEN CleanComps(t, out, rooted)
                  ELSE CleanComps(t, Append(out, h), rooted)
             ELSE CleanComps(t, Append(out, h), rooted)

Clean(path) ==
    IF path = <<>> THEN Dot
    ELSE LET rooted == IsAbs(path)
             out == JoinSep(CleanComps(Components(path), <<>>, rooted))
         IN  IF rooted THEN <<Sep>> \o out
             ELSE IF out = <<>> THEN Dot ELSE out

\* filepath.Join of two elements: empty elements are ignored, the rest are
\* joined with a separator and cleaned.
Join(a, b) ==
    IF a = <<>> /\ b = <<>> THEN <<>>
    ELSE IF a = <<>> THEN Clean(b)
    ELSE IF b = <<>> THEN Clean(a)
    ELSE Clean(a \o <<Sep>> \o b)

RECURSIVE LastSep(_, _)
LastSep(path, i) ==
    IF i = 0 THEN 0 ELSE IF path[i] = Sep THEN i ELSE LastSep(path, i - 1)

\* filepath.Dir: all but the last element of the path, cleaned.
Dir(path) == Clean(SubSeq(path, 1, LastSep(path, Len(path))))

RECURSIVE CommonLen(_, _)
CommonLen(a, b) ==
    IF a = <<>> \/ b = <<>> \/ Head(a) # Head(b) THEN 0
    ELSE 1 + CommonLen(Tail(a), Tail(b))

RelComps(path) ==
    LET cs == Components(path)
    IN  IF path = <<Sep>> \/ path = Dot THEN <<>>
        ELSE IF IsAbs(path) THEN Tail(cs) ELSE cs

\* filepath.Rel: [err, rel].  Both paths are cleaned; the common leading
\* elements are dropped; every element left of the base becomes "..".
Rel(basepath, targpath) ==
    LET base == Clean(basepath)
        targ == Clean(targpath)
        b == RelComps(base)
        t == RelComps(targ)
        k == CommonLen(b, t)
        brest == SubSeq(b, k + 1, Len(b))
        trest == SubSeq(t, k + 1, Len(t))
    IN  IF targ = base THEN [err |-> FALSE, rel |-> Dot]
        ELSE IF IsAbs(base) # IsAbs(targ) THEN [err |-> TRUE, rel |-> <<>>]
        ELSE IF brest # <<>> /\ brest[1] = DotDot THEN [err |-> TRUE, rel |-> <<>>]
        ELSE [err |-> FALSE,
              rel |-> JoinSep([i \in 1..Len(brest) |-> DotDot] \o trest)]

(***************************************************************************)
(* the filesystem, as the operating system resolves paths in it            *)
(*                                                                         *)
(* A location is the sequence of names from "/" down; a node is a          *)
(* directory, a regular file with its data, or a symbolic link with its    *)
(* target.  Names are one character long.                                  *)
(***************************************************************************)
NoNode == [kind |-> "none", data |-> <<>>, target |-> <<>>]
DirNode == [kind |-> "dir", data |-> <<>>, target |-> <<>>]
FileNode(data) == [kind |-> "file", data |-> data, target |-> <<>>]
LinkNode(target) == [kind |-> "link", data |-> <<>>, target |-> target]

NodeAt(f, loc) == IF loc \in DOMAIN f THEN f[loc] ELSE NoNode

Parent(loc) == IF loc = <<>> THEN <<>> ELSE SubSeq(loc, 1, Len(loc) - 1)

\* The path string of a location.
LocPath(loc) == <<Sep>> \o JoinSep([i \in 1..Len(loc) |-> <<loc[i]>>])

\* The number of symbolic links the kernel follows in one resolution
\* before it gives up with ELOOP.
MaxFollow == 4

\* Path resolution by the kernel, from location cur over the components
\* left: "." and empty components stay, ".." goes to the parent, a symbolic
\* link met on the way is followed, and so is one in the last component
\* when followLast is set.  [err, loc]: loc may name a node that does not
\* exist when only the last component is missing.
RECURSIVE Walk(_, _, _, _, _)
Walk(f, cur, comps, followLast, budget) ==
    IF comps = <<>> THEN [err |-> "", loc |-> cur]
    ELSE LET h == Head(comps)
             t == Tail(comps)
         IN  IF h = <<>> \/ h = Dot THEN Walk(f, cur, t, followLast, budget)
             ELSE IF NodeAt(f, cur).kind = "none" THEN [err |-> "ENOENT", loc |-> cur]
             ELSE IF NodeAt(f, cur).kind # "dir" THEN [err |-> "ENOTDIR", loc |-> cur]
             ELSE IF h = DotDot THEN Walk(f, Parent(cur), t, followLast, budget)
             ELSE IF Len(h) # 1 THEN [err |-> "ENOENT", loc |-> cur]
             ELSE LET next == Append(cur, h[1])
                      node == NodeAt(f, next)
                  IN  IF node.kind = "link" /\ (t # <<>> \/ followLast)
                      THEN IF budget = 0 THEN [err |-> "ELOOP", loc |-> next]
                           ELSE IF IsAbs(node.target)
                           THEN Walk(f, <<>>, Components(node.target) \o t,
                                     followLast, budget - 1)
                           ELSE Walk(f, cur, Components(node.target) \o t,
                                     followLast, budget - 1)
                      ELSE IF node.kind = "none" /\ t # <<>>
                      THEN [err |-> "ENOENT", loc |-> next]
                      ELSE Walk(f, next, t, followLast, budget)

\* Where an absolute path leads, every symbolic link followed.
Lookup(f, path) == Walk(f, <<>>, Components(path), TRUE, MaxFollow)

\* os.Readlink: the target of the symbolic link at path, whose last
\* component is not followed; an error for anything that is no link.
Readlink(f, path) ==
    LET w == Walk(f, <<>>, Components(path), FALSE, MaxFollow)
        node == NodeAt(f, w.loc)
    IN  IF w.err # "" THEN [err |-> w.err, name |-> <<>>]
        ELSE IF node.kind = "none" THEN [err |-> "ENOENT", name |-> <<>>]
        ELSE IF node.kind # "link" THEN [err |-> "EINVAL", name |-> <<>>]
        ELSE [err |-> "", name |-> node.target]

(***************************************************************************)
(* ContentValue.RealPath                                                   *)
(***************************************************************************)
CheckNone == 0
CheckRead == 2
CheckWrite == 4

\* what&flag != 0, for flag a power of two.
HasFlag(what, flag) == (what \div flag) % 2 = 1

\* An authorization predicate is nil, or rejects the paths of its deny set.
NilCheck == [nil |-> TRUE, deny |-> {}]

\* An event of an operation: a call of a predicate with the path it was
\* given (arg is the path RealPath received) and whether it accepted it, or
\* an access to the filesystem and whether it succeeded.
Event(ev, path, arg, ok) == [ev |-> ev, path |-> path, arg |-> arg, ok |-> ok]

\* The depth at which the recursion of RealPath is cut off in the model.
\* The code has no such limit: a resolution that reaches it is one that
\* never returns (the goroutine's stack overflows).
MaxDepth == 4

\* cpath of RealPath: the cleaned path, with the trailing separator of
\* the path it was made from put back.
CPath(path) ==
    LET cpath == Clean(path)
    IN  IF cpath # <<Sep>> /\ HasSuffix(path, <<Sep>>) THEN cpath \o <<Sep>>
        ELSE cpath

\* The path a predicate is called with.
CheckedPathRaw(path, cpath, rpath) == path

CheckedPath(path, cpath, rpath) == cpath

\* rpath == RootDir || HasPrefix(rpath, RootDir + "/"), for an absolute rpath.
ConfinedNoSep(RootDir, rpath) == IsAbs(rpath) /\ HasPrefix(rpath, RootDir)

Confined(RootDir, rpath) ==
    /\ IsAbs(rpath)
    /\ \/ rpath = RootDir
       \/ HasPrefix(rpath, RootDir \o <<Sep>>)

\* [err, path, events] of c.RealPath(path, what) on filesystem f.
RECURSIVE RealPath(_, _, _, _, _)
RealPath(cv, f, path, what, depth) ==
    LET cpath == CPath(path)
        rpath == Join(cv.RootDir, path)
        given == CheckedPath(path, cpath, rpath)
        doRead == ~cv.CheckRead.nil /\ HasFlag(what, CheckRead)
        doWrite == ~cv.CheckWrite.nil /\ HasFlag(what, CheckWrite)
        evRead == IF doRead
                  THEN <<Event("CheckRead", given, path, given \notin cv.CheckRead.deny)>>
                  ELSE <<>>
        evWrite == IF doWrite
                   THEN <<Event("CheckWrite", given, path, given \notin cv.CheckWrite.deny)>>
                   ELSE <<>>
        link == Readlink(f, rpath)
        evLink == <<Event("Readlink", rpath, path, link.err = "")>>
        lpath == Join(Dir(rpath), link.name)
        lrel == Rel(cv.RootDir, lpath)
        rec == RealPath(cv, f, <<Sep>> \o lrel.rel, what, depth - 1)
        Fail(e, evs) == [err |-> e, path |-> <<>>, events |-> evs]
    IN  IF depth = 0 THEN Fail("stack overflow", <<>>)
        ELSE IF ~IsAbs(cv.RootDir) THEN Fail("internal error: relative root", <<>>)
        ELSE IF ~IsAbs(path) THEN Fail("content path must be absolute", <<>>)
        ELSE IF doRead /\ given \in cv.CheckRead.deny THEN Fail("CheckRead", evRead)
        ELSE IF doWrite /\ given \in cv.CheckWrite.deny
        THEN Fail("CheckWrite", evRead \o evWrite)
        ELSE IF ~Confined(cv.RootDir, rpath)
        THEN Fail("invalid content path", evRead \o evWrite)
        ELSE IF link.err # ""
        THEN [err |-> "", path |-> rpath, events |-> evRead \o evWrite \o evLink]
        ELSE IF lrel.err \/ ~Confined(cv.RootDir, lpath)
        THEN Fail("invalid content symlink", evRead \o evWrite \o evLink)
        ELSE IF rec.err # ""
        THEN Fail(rec.err, evRead \o evWrite \o evLink \o rec.events)
        ELSE [err |-> "", path |-> rpath,
              events |-> evRead \o evWrite \o evLink \o rec.events]

(***************************************************************************)
(* starlark: safety flags, the thread's counters, cancellation              *)
(***************************************************************************)
CPUSafe == "CPUSafe"
MemSafe == "MemSafe"
TimeSafe == "TimeSafe"
IOSafe == "IOSafe"
NotSafe == {}

\* The safety Run requires of everything its thread calls.
requiredSafety == {CPUSafe, MemSafe, TimeSafe}

\* The safety SafeAttr declares.
SafeAttrSafety == {CPUSafe, MemSafe, TimeSafe, IOSafe}

\* The safety each method is declared with.
contentValueMethods ==
    [read |-> {CPUSafe, MemSafe, TimeSafe},
     write |-> NotSafe,
     list |-> {CPUSafe, MemSafe, TimeSafe}]

\* A call is permitted when what is called declares every safety the
\* thread requires; a nil thread requires nothing.
CheckSafetyNever(t, safety) == TRUE

CheckSafety(t, safety) == t.nil \/ t.required \subseteq safety

\* Sizes the thread is charged, in abstract units.
BuiltinSize == 2
StringTypeOverhead == 1
ListSize == 1

AddAllocsNone(t, n) == t

AddAllocs(t, n) == [t EXCEPT !.allocs = @ + n]

\* Charging steps is where a cancelled thread reports its cancellation.
AddSteps(t, n) ==
    IF t.cancelled THEN [err |-> "Starlark computation cancelled", t |-> t]
    ELSE [err |-> "", t |-> [t EXCEPT !.steps = @ + n]]

\* What an operation hands back: error, value, and the thread and the
\* filesystem as it leaves them, with the events it caused.
Res(err, errpath, ret, t, f, events) ==
    [err |-> err, errpath |-> errpath, ret |-> ret, t |-> t, f |-> f,
     events |-> events]

(***************************************************************************)
(* ContentValue.SafeAttr                                                   *)
(***************************************************************************)
SafeAttr(cv, t, name) ==
    IF ~CheckSafety(t, SafeAttrSafety) THEN [err |-> "safety", ret |-> "", t |-> t]
    ELSE IF name \notin DOMAIN contentValueMethods
    THEN [err |-> "no such attribute", ret |-> "", t |-> t]
    ELSE [err |-> "", ret |-> [method |-> name, recv |-> cv],
          t |-> IF t.nil THEN t ELSE AddAllocs(t, BuiltinSize)]

(***************************************************************************)
(* Content.read                                                            *)
(***************************************************************************)
\* An *os.PathError is the one error that carries a path: polishError
\* replaces it by the path the script gave.
polishErrorNot(path, r) == r

polishError(path, r) == IF r.errpath # <<>> THEN [r EXCEPT !.errpath = path] ELSE r

\* SafeReadFile when nothing cancels the thread while it runs.  In an
\* event of the filesystem, arg is the path of the location reached.
SafeReadFile(t, f, fpath) ==
    LET w == Lookup(f, fpath)
        node == NodeAt(f, w.loc)
        openErr == IF w.err # "" THEN w.err
                   ELSE IF node.kind = "none" THEN "ENOENT" ELSE ""
        evOpen == <<Event("Open", fpath, LocPath(w.loc), openErr = "")>>
    IN  IF t.cancelled THEN Res("context canceled", <<>>, <<>>, t, f, <<>>)
        ELSE IF openErr # "" THEN Res(openErr, fpath, <<>>, t, f, evOpen)
        ELSE IF node.kind = "dir" THEN Res("EISDIR", fpath, <<>>, t, f, evOpen)
        ELSE Res("", <<>>, node.data,
                 [t EXCEPT !.steps = @ + Len(node.data), !.allocs = @ + Len(node.data)],
                 f, evOpen)

\* After RealPath has returned r with no error.
ReadResolved(f, t, path, r) ==
    Only({ IF d.err # ""
           THEN polishError(path, [d EXCEPT !.events = r.events \o d.events])
           ELSE Res("", <<>>, d.ret, AddAllocs(d.t, StringTypeOverhead), f,
                    r.events \o d.events)
           : d \in {SafeReadFile(t, f, r.path)} })

contentValueRead(cv, f, t, path) ==
    Only({ IF r.err # "" THEN Res(r.err, <<>>, <<>>, t, f, r.events)
           ELSE ReadResolved(f, t, path, r)
           : r \in {RealPath(cv, f, path, CheckRead, MaxDepth)} })

(***************************************************************************)
(* Content.write                                                           *)
(***************************************************************************)
\* fsutil.Create of a regular file: the file at the path is created or
\* truncated, symbolic links followed, and the data written to it; the
\* entry returned names the path and the size of what was written.
Create(f, fpath, data) ==
    LET w == Lookup(f, fpath)
        node == NodeAt(f, w.loc)
        e == IF w.err # "" THEN w.err ELSE IF node.kind = "dir" THEN "EISDIR" ELSE ""
        ev == <<Event("Create", fpath, LocPath(w.loc), e = "")>>
    IN  IF e # "" THEN [err |-> e, errpath |-> fpath, f |-> f, events |-> ev,
                        entry |-> [path |-> <<>>, size |-> 0]]
        ELSE [err |-> "", errpath |-> <<>>,
              f |-> (w.loc :> FileNode(data)) @@ f, events |-> ev,
              entry |-> [path |-> fpath, size |-> Len(data)]]

\* if err != nil { return nil, err } after RealPath.
ResolvedIgnoringErr(err) == TRUE

Resolved(err) == err = ""

\* After RealPath has returned r and the function has gone on: the file
\* is created at fpath, then OnWrite is called with the entry.
\* if err != nil { return nil, recv.polishError(path, err) } after
\* fsutil.Create.
CreatedIgnoringErr(err) == TRUE

Created(err) == err = ""

\* err = recv.OnWrite(entry); if err != nil { return nil, err }: the error
\* of the callback of cv, which is what the write returns.
OnWriteErrDropped(cv) == ""

OnWriteErr(cv) == IF cv.OnWrite = "err" THEN "OnWrite" ELSE ""

WriteResolved(cv, f, t, path, data, r, fpath) ==
    Only({ IF ~Created(cr.err)
           THEN polishError(path, Res(cr.err, cr.errpath, <<>>, t, f,
                                      r.events \o cr.events))
           ELSE IF cv.OnWrite = "nil"
           THEN Res("panic: nil pointer dereference", <<>>, <<>>, t, cr.f,
                    r.events \o cr.events)
           ELSE Res(OnWriteErr(cv), <<>>, <<>>, t, cr.f,
                    r.events \o cr.events
                    \o <<Event("OnWrite", cr.entry.path, <<>>, cv.OnWrite = "ok")>>)
           : cr \in {Create(f, fpath, data)} })

contentValueWrite(cv, f, t, path, data) ==
    Only({ IF ~Resolved(r.err) THEN Res(r.err, <<>>, <<>>, t, f, r.events)
           ELSE WriteResolved(cv, f, t, path, data, r,
                              IF r.err = "" THEN r.path ELSE Join(cv.RootDir, path))
           : r \in {RealPath(cv, f, path, CheckWrite, MaxDepth)} })

(***************************************************************************)
(* Content.list                                                            *)
(***************************************************************************)
\* The order in which a directory hands out its entries.
DirOrder ==
    <<"b", "d", "e", "f", "g", "k", "l", "m", "n", "p", "r",
      "A", "B", "C", "D", "E", "F", "G", "H", "I", "J",
      "K", "L", "M", "N", "O", "P", "Q", "R", "S", "T">>

\* The most entries that one f.ReadDir(16) hands out.
ReadDirN == 16

\* name := entry.Name(); if entry.IsDir() { name += "/" }
EntryNamePlain(f, loc, n) == <<n>>

EntryName(f, loc, n) ==
    IF NodeAt(f, Append(loc, n)).kind = "dir" THEN <<n, Sep>> ELSE <<n>>

\* valuesAppender.Append(value): the thread is charged a step for the
\* value appended.
AppendStepsNone(t) == AddSteps(t, 0)

AppendSteps(t) == AddSteps(t, 1)

\* The loop over the entries of one batch: each value is charged, then
\* appended.
RECURSIVE ListEntries(_, _, _)
ListEntries(t, names, values) ==
    IF names = <<>> THEN [err |-> "", t |-> t, ret |-> values]
    ELSE Only({ IF a.err # "" THEN [err |-> a.err, t |-> a.t, ret |-> <<>>]
                ELSE ListEntries(a.t, Tail(names), Append(values, Head(names)))
                : a \in {AppendSteps(AddAllocs(t, StringTypeOverhead
                                                   + Len(Head(names))))} })

\* The loop over the batches: f.ReadDir(16) hands out the next entries,
\* sixteen at most, until none is left (io.EOF).
RECURSIVE ListBatches(_, _, _)
ListBatches(t, names, values) ==
    IF names = <<>> THEN [err |-> "", t |-> t, ret |-> values]
    ELSE LET n == IF Len(names) < ReadDirN THEN Len(names) ELSE ReadDirN
         IN  Only({ IF l.err # "" THEN l
                    ELSE ListBatches(l.t, SubSeq(names, n + 1, Len(names)), l.ret)
                    : l \in {ListEntries(t, SubSeq(names, 1, n), values)} })

\* After RealPath has returned r with no error: os.Open has led to w.
ListResolved(f, t, path, r, w) ==
    LET node == NodeAt(f, w.loc)
        openErr == IF w.err # "" THEN w.err
                   ELSE IF node.kind = "none" THEN "ENOENT" ELSE ""
        evOpen == <<Event("Open", r.path, LocPath(w.loc), openErr = "")>>
        present == SelectSeq(DirOrder, LAMBDA n : NodeAt(f, Append(w.loc, n)).kind # "none")
        names == [i \in 1..Len(present) |-> EntryName(f, w.loc, present[i])]
    IN  IF openErr # ""
        THEN polishError(path, Res(openErr, r.path, <<>>, t, f, r.events \o evOpen))
        ELSE IF node.kind # "dir"
        THEN polishError(path, Res("ENOTDIR", r.path, <<>>, t, f, r.events \o evOpen))
        ELSE Only({ IF l.err # "" THEN Res(l.err, <<>>, <<>>, l.t, f, r.events \o evOpen)
                    ELSE Res("", <<>>, l.ret, AddAllocs(l.t, ListSize), f,
                             r.events \o evOpen)
                    : l \in {ListBatches(t, names, <<>>)} })

contentValueList(cv, f, t, path) ==
    LET dpath == IF HasSuffix(path, <<Sep>>) THEN path ELSE path \o <<Sep>>
    IN  Only({ IF r.err # "" THEN Res(r.err, <<>>, <<>>, t, f, r.events)
               ELSE Only({ ListResolved(f, t, path, r, w) : w \in {Lookup(f, r.path)} })
               : r \in {RealPath(cv, f, dpath, CheckRead, MaxDepth)} })

\* starlark.Call of a method: the thread must permit it, then it runs.
Call(cv, f, t, name, path, data) ==
    IF ~CheckSafety(t, contentValueMethods[name])
    THEN Res("safety", <<>>, <<>>, t, f, <<>>)
    ELSE IF name = "read" THEN contentValueRead(cv, f, t, path)
    ELSE IF name = "write" THEN contentValueWrite(cv, f, t, path, data)
    ELSE contentValueList(cv, f, t, path)

(***************************************************************************)
(* SafeReadFile and SafeWriteFile, step by step, with the context's        *)
(* cancellation and the function registered by context.AfterFunc running   *)
(* concurrently                                                            *)
(***************************************************************************)
\* Error values.  A failed method of an *os.File returns an *os.PathError
\* that wraps the cause; os.ErrClosed and context.Canceled are plain values.
NilErr == [type |-> "nil", op |-> "", text |-> ""]
ErrClosed == [type |-> "errorString", op |-> "", text |-> "file already closed"]
Canceled == [type |-> "errorString", op |-> "", text |-> "context canceled"]
StepsError(text) == [type |-> "errorString", op |-> "", text |-> text]
StarlarkCancelled == StepsError("Starlark computation cancelled")
PathError(op, text) == [type |-> "PathError", op |-> op, text |-> text]

\* Chunks an endless source hands out before the model stops following it.
MaxChunks == 2

\* What is read, written or listed: a file of two chunks (a directory of
\* two entries), a source that never ends (/dev/zero), a path that cannot
\* be opened, a file whose transfer fails with an I/O error.
Sources == {"file", "endless", "missing", "faulty"}

NoIO ==
    [pc |-> "idle", op |-> "none", source |-> "none", left |-> 0,
     handle |-> "none", observer |-> "none", sb |-> 0, err |-> NilErr,
     ret |-> 0, startCancelled |-> FALSE, cancelDuring |-> FALSE,
     lateClose |-> FALSE, opened |-> FALSE, budget |-> FALSE]

\* ctx.Err() and context.Cause(ctx) of the thread's context.
CtxErrIgnored(t) == NilErr

CtxErr(t) == IF t.cancelled THEN Canceled ELSE NilErr

\* SafeReadFile(thread, fpath) or SafeWriteFile(thread, fpath, data, perm) is
\* called, or contentValueList has resolved its path.  budget: the thread
\* has used up its budget, and the next charge is refused.
IOCall ==
    /\ io.pc = "idle"
    /\ \E op \in {"read", "write", "list"}, src \in Sources, b \in BOOLEAN :
         /\ op = "list" => src # "endless"
         /\ io' = [NoIO EXCEPT !.pc = "start", !.op = op, !.source = src,
                               !.left = IF src = "file" THEN 2 ELSE 0,
                               !.startCancelled = thread.cancelled,
                               !.budget = b]
    /\ UNCHANGED <<run, c, fs, thread, last, nops>>

\* A charge of the thread by the operation under way: refused when the
\* budget is used up, and when the thread is cancelled.
IOCharge ==
    IF io.budget THEN [err |-> "too many steps", t |-> thread]
    ELSE AddSteps(thread, 1)

\* SafeReadFile: if err := ctx.Err(); err != nil { return "", context.Cause(ctx) }
\* SafeWriteFile: if err := thread.AddSteps(len(data)); err != nil { return err }
\* contentValueList: values := []Value{} and the appender.
IOStart ==
    /\ io.pc = "start"
    /\ IF io.op = "read"
       THEN /\ io' = IF CtxErr(thread) # NilErr
                     THEN [io EXCEPT !.pc = "done", !.err = CtxErr(thread)]
                     ELSE [io EXCEPT !.pc = "open"]
            /\ thread' = thread
       ELSE IF io.op = "list"
       THEN /\ io' = [io EXCEPT !.pc = "open"]
            /\ thread' = thread
       ELSE \E a \in {IOCharge} :
              /\ io' = IF a.err # ""
                       THEN [io EXCEPT !.pc = "done", !.err = StepsError(a.err)]
                       ELSE [io EXCEPT !.pc = "open"]
              /\ thread' = a.t
    /\ UNCHANGED <<run, c, fs, last, nops>>

\* os.Open / os.OpenFile, and defer f.Close().
IOOpen ==
    /\ io.pc = "open"
    /\ io' = IF io.source = "missing"
             THEN [io EXCEPT !.pc = "done", !.err = PathError("open", "ENOENT")]
             ELSE [io EXCEPT !.pc = IF io.op = "list" THEN "transfer" ELSE "register",
                             !.handle = "open", !.opened = TRUE]
    /\ UNCHANGED <<run, c, fs, thread, last, nops>>

\* stop := context.AfterFunc(ctx, func() { f.Close() }), and defer stop().
\* When the context is done already, the function is started at once in
\* its own goroutine.
IORegister ==
    /\ io.pc = "register"
    /\ io' = [io EXCEPT !.pc = "transfer",
                        !.observer = IF thread.cancelled THEN "started" ELSE "registered"]
    /\ UNCHANGED <<run, c, fs, thread, last, nops>>

\* err == os.ErrClosed
IsErrClosed(err) == err = ErrClosed

\* What the function returns for the error of the transfer;
\* contentValueList returns the error as it is.
Returned(err) ==
    IF io.op # "list" /\ IsErrClosed(err) THEN CtxErr(thread) ELSE err

\* Where the function goes when the transfer is over: to its deferred
\* stop(), which contentValueList has not.
AfterTransfer == IF io.op = "list" THEN "close" ELSE "stop"

\* One round of f.WriteTo(sb): a read from the file, then a write to the
\* string builder, which charges the thread; or the one f.Write(data); or
\* one entry of f.ReadDir, charged and appended.
\* A read or write on a closed file fails with a PathError wrapping
\* os.ErrClosed.
IOTransfer ==
    /\ io.pc = "transfer"
    /\ IF io.handle = "closed"
       THEN /\ io' = [io EXCEPT !.pc = AfterTransfer,
                                !.err = Returned(PathError(io.op, ErrClosed.text))]
            /\ thread' = thread
       ELSE IF io.source = "faulty"
       THEN /\ io' = [io EXCEPT !.pc = AfterTransfer, !.err = Returned(PathError(io.op, "EIO"))]
            /\ thread' = thread
       ELSE IF io.op = "write"
       THEN /\ io' = [io EXCEPT !.pc = AfterTransfer, !.sb = 1, !.err = Returned(NilErr)]
            /\ thread' = thread
       ELSE IF io.source = "file" /\ io.left = 0
       THEN /\ io' = [io EXCEPT !.pc = AfterTransfer, !.ret = io.sb]
            /\ thread' = thread
       ELSE /\ io.source = "endless" => io.sb < MaxChunks
            /\ \E a \in {IOCharge} :
                 /\ io' = IF a.err # ""
                          THEN [io EXCEPT !.pc = AfterTransfer, !.err = Returned(StepsError(a.err))]
                          ELSE [io EXCEPT !.sb = @ + 1,
                                          !.left = IF io.source = "file" THEN @ - 1 ELSE @]
                 /\ thread' = a.t
    /\ UNCHANGED <<run, c, fs, last, nops>>

\* The deferred stop(): it takes the function back when it has not been
\* started, and does not wait for one that has.
IOStop ==
    /\ io.pc = "stop"
    /\ io' = [io EXCEPT !.pc = "close",
                        !.observer = IF @ = "registered" THEN "stopped" ELSE @]
    /\ UNCHANGED <<run, c, fs, thread, last, nops>>

\* defer f.Close(): what becomes of the handle.
DeferredCloseMissing(handle) == handle

DeferredClose(handle) == "closed"

\* The deferred f.Close(), after which the function has returned.
IOClose ==
    /\ io.pc = "close"
    /\ io' = [io EXCEPT !.pc = "done", !.handle = DeferredClose(@)]
    /\ UNCHANGED <<run, c, fs, thread, last, nops>>

\* thread.Cancel from another goroutine: the context is done, and a
\* registered function is started.
CancelIO ==
    /\ ~thread.cancelled
    /\ thread' = [thread EXCEPT !.cancelled = TRUE]
    /\ io' = [io EXCEPT !.observer = IF @ = "registered" THEN "started" ELSE @,
                        !.cancelDuring = io.pc = "transfer"]
    /\ UNCHANGED <<run, c, fs, last, nops>>

\* The started function runs: f.Close().
ObserverRun ==
    /\ io.observer = "started"
    /\ io' = [io EXCEPT !.observer = "ran", !.handle = "closed",
                        !.lateClose = io.pc = "done"]
    /\ UNCHANGED <<run, c, fs, thread, last, nops>>

(***************************************************************************)
(* the values the model draws from                                         *)
(***************************************************************************)
\* Confinement roots: "/r", "/", "/r/" (not clean) and "r" (relative).
RootR == <<"/", "r">>
Roots == {RootR, <<"/">>, <<"/", "r", "/">>, <<"r">>}

\* Targets of the symbolic links /r/l and /r/m (<<>>: the link is absent):
\* "/e" and "/e/p" are outside /r and written absolute, "../e/p" is outside
\* and written relative, "f", "d", "/r" and "/r/f" are inside, "m" and "l"
\* chain to the other link, "l" for /r/l points to itself.
LTargets ==
    { <<>>, <<"/", "e">>, <<".", ".", "/", "e", "/", "p">>, <<"m">>,
      <<"f">>, <<"d">>, <<"l">>, <<"/", "r">>, <<"/", "r", "/", "f">> }
MTargets == { <<>>, <<"/", "e", "/", "p">>, <<"l">>, <<"f">> }

\* The entries of the directory /r/k, more than one f.ReadDir(16) hands
\* out, and the directories among them.
KNames ==
    {"A", "B", "C", "D", "E", "F", "G", "H", "I", "J",
     "K", "L", "M", "N", "O", "P", "Q", "R", "S", "T"}
KDirs == {"B", "R"}

\* /r holds the file f, the directory d with the file g, the empty
\* directory b, the directory k of twenty entries, and the links l and m;
\* /e with the file p is outside /r.
MakeFS(lt, mt) ==
    LET base == (<<>> :> DirNode)
             @@ (<<"r">> :> DirNode)
             @@ (<<"r", "f">> :> FileNode(<<"o">>))
             @@ (<<"r", "d">> :> DirNode)
             @@ (<<"r", "d", "g">> :> FileNode(<<"o", "o">>))
             @@ (<<"r", "b">> :> DirNode)
             @@ (<<"r", "k">> :> DirNode)
             @@ [loc \in {<<"r", "k", n>> : n \in KNames} |->
                     IF loc[3] \in KDirs THEN DirNode ELSE FileNode(<<>>)]
             @@ (<<"e">> :> DirNode)
             @@ (<<"e", "p">> :> FileNode(<<"s">>))
        l == IF lt = <<>> THEN <<>> :> DirNode ELSE <<"r", "l">> :> LinkNode(lt)
        m == IF mt = <<>> THEN <<>> :> DirNode ELSE <<"r", "m">> :> LinkNode(mt)
    IN  base @@ l @@ m

\* Paths a caller hands to RealPath: clean ones, ones with "..", ".",
\* repeated and trailing separators, ones through the links, a relative
\* one and the empty one.
InputPaths ==
    { <<"/">>, <<"/", "f">>, <<"/", "d", "/", "g">>, <<"/", "d", "/">>,
      <<"/", "n">>, <<"/", "l">>, <<"/", "l", "/">>, <<"/", "l", "/", "p">>,
      <<"/", "m">>, <<"/", "l", "/", "g">>,
      <<"/", ".", ".", "/", "e", "/", "p">>, <<"/", ".", ".", "/", "r", "e">>,
      <<"/", "d", "/", ".", ".", "/", ".", ".", "/", "e">>,
      <<"/", "/", "f">>, <<"/", ".", "/", "f", "/">>, <<"/", "d", "/", ".", ".">>,
      <<"/", "d", "/", ".", "/", "g", "/">>, <<"/", "d", "/", ".">>,
      <<"f">>, <<>> }

Whats == {CheckNone, CheckRead, CheckWrite, CheckRead + CheckWrite}

\* Predicates a host installs: none, or one rejecting a few virtual paths.
DenyRead == [nil |-> FALSE, deny |-> {<<"/", "f">>, <<"/", "d", "/">>}]
DenyWrite == [nil |-> FALSE, deny |-> {<<"/", "f">>, <<"/", "n">>}]
ReadChecks == {NilCheck, DenyRead}
WriteChecks == {NilCheck, DenyWrite}

NoThread == [nil |-> TRUE, required |-> {}, cancelled |-> FALSE, steps |-> 0, allocs |-> 0]

\* No script is being run.
NoRun == [pc |-> "idle", script |-> <<>>, at |-> 0, iter |-> 0, phase |-> "test",
          err |-> ""]

\* The outcome of an operation: its arguments, the error and the value it
\* returned (errpath is the Path of an *os.PathError), its events, the
\* thread as it was when the operation was called (pre), and whether the
\* operation changed the filesystem.
NoOutcome ==
    [op |-> "none", path |-> <<>>, what |-> CheckNone, data |-> <<>>, err |-> "",
     errpath |-> <<>>, ret |-> <<>>, events |-> <<>>, pre |-> NoThread,
     mutated |-> FALSE]

Outcome(op, path, what, err, ret, events) ==
    [NoOutcome EXCEPT !.op = op, !.path = path, !.what = what, !.err = err,
                      !.ret = ret, !.events = events]

(***************************************************************************)
(* Run: a script is a sequence of top-level statements, each a simple      *)
(* statement, a statement that fails, a loop over a finite sequence or a   *)
(* while loop whose condition stays true                                   *)
(***************************************************************************)
dialect ==
    [Set |-> FALSE, While |-> TRUE, TopLevelControl |-> TRUE,
     GlobalReassign |-> TRUE, LoadBindsGlobally |-> FALSE, Recursion |-> FALSE]

Statements == {"pass", "fail", "for", "while"}

\* The longest script, the rounds of a loop over a finite sequence, and
\* the count at which the model stops counting the steps of the thread
\* (the thread's own count has no limit: Run sets none).
MaxScript == 3
ForIters == 2
MaxRunSteps == 6

Scripts == UNION {[1..n -> Statements] : n \in 1..MaxScript}

\* What the dialect lets the parser accept.
Permitted(script) ==
    \A i \in DOMAIN script :
        /\ script[i] = "while" => dialect.While
        /\ script[i] \in {"for", "while"} => dialect.TopLevelControl

\* One more step of the thread.
Stepped(t) ==
    [t EXCEPT !.steps = IF @ < MaxRunSteps THEN @ + 1 ELSE @]

\* Run(opts): the thread is made and requires the safety flags, and
\* starlark.ExecFileOptions parses the script.
RunCall ==
    /\ run.pc = "idle"
    /\ \E script \in Scripts :
         run' = IF Permitted(script)
                THEN [NoRun EXCEPT !.pc = "running", !.script = script, !.at = 1]
                ELSE [NoRun EXCEPT !.pc = "returned", !.script = script,
                                   !.err = "syntax error"]
    /\ thread' = [nil |-> FALSE, required |-> requiredSafety, cancelled |-> FALSE,
                  steps |-> 0, allocs |-> 0]
    /\ UNCHANGED <<c, fs, last, nops, io>>

\* The interpreter executes the statement it is at.
RunStep ==
    /\ run.pc = "running"
    /\ run.at <= Len(run.script)
    /\ LET stmt == run.script[run.at]
       IN  /\ run' = IF stmt = "pass" THEN [run EXCEPT !.at = @ + 1]
                     ELSE IF stmt = "fail"
                     THEN [run EXCEPT !.pc = "returned", !.err = "error"]
                     ELSE IF stmt = "for"
                     THEN IF run.iter < ForIters THEN [run EXCEPT !.iter = @ + 1]
                          ELSE [run EXCEPT !.at = @ + 1, !.iter = 0]
                     ELSE [run EXCEPT !.phase = IF @ = "test" THEN "body" ELSE "test"]
           /\ thread' = Stepped(thread)
    /\ UNCHANGED <<c, fs, last, nops, io>>

\* The last statement is done: ExecFileOptions returns, and Run returns
\* its error.
RunReturn ==
    /\ run.pc = "running"
    /\ run.at > Len(run.script)
    /\ run' = [run EXCEPT !.pc = "returned"]
    /\ UNCHANGED <<c, fs, thread, last, nops, io>>

InitRun ==
    /\ c = [RootDir |-> RootR, CheckRead |-> NilCheck, CheckWrite |-> NilCheck,
            OnWrite |-> "ok"]
    /\ fs = MakeFS(<<>>, <<>>)
    /\ thread = NoThread
    /\ last = NoOutcome
    /\ nops = 0
    /\ io = NoIO
    /\ run = NoRun

NextRun == RunCall \/ RunStep \/ RunReturn

\* The interpreter runs on the goroutine that called Run and goes on as
\* long as it has a statement to execute.
SpecRun == InitRun /\ [][NextRun]_vars /\ WF_vars(RunStep) /\ WF_vars(RunReturn)

(***************************************************************************)
(* SpecPath: RealPath applied once to a drawn root, filesystem, path and   *)
(* check flags                                                             *)
(***************************************************************************)
InitPath ==
    /\ c \in [RootDir : Roots, CheckRead : ReadChecks, CheckWrite : WriteChecks,
              OnWrite : {"ok"}]
    /\ fs \in {MakeFS(lt, mt) : lt \in LTargets, mt \in MTargets}
    /\ last \in {Outcome("input", p, w, "", <<>>, <<>>) : p \in InputPaths, w \in Whats}
    /\ thread = NoThread
    /\ nops = 0
    /\ io = NoIO
    /\ run = NoRun

RealPathCall ==
    /\ last.op = "input"
    /\ \E r \in {RealPath(c, fs, last.path, last.what, MaxDepth)} :
           last' = Outcome("RealPath", last.path, last.what, r.err, r.path, r.events)
    /\ UNCHANGED <<run, c, fs, thread, nops, io>>

NextPath == RealPathCall

SpecPath == InitPath /\ [][NextPath]_vars

(***************************************************************************)
(* SpecIO: one call of SafeReadFile or SafeWriteFile, and a concurrent     *)
(* cancellation                                                            *)
(***************************************************************************)
InitIO ==
    /\ c = [RootDir |-> RootR, CheckRead |-> NilCheck, CheckWrite |-> NilCheck,
            OnWrite |-> "ok"]
    /\ fs = MakeFS(<<>>, <<>>)
    /\ thread = [nil |-> FALSE, required |-> {}, cancelled |-> FALSE,
                 steps |-> 0, allocs |-> 0]
    /\ last = NoOutcome
    /\ nops = 0
    /\ io = NoIO
    /\ run = NoRun

NextIO ==
    \/ IOCall \/ IOStart \/ IOOpen \/ IORegister \/ IOTransfer \/ IOStop \/ IOClose
    \/ CancelIO \/ ObserverRun

SpecIO == InitIO /\ [][NextIO]_vars

(***************************************************************************)
(* Spec: a host calls the methods of one Content value bound to /r on one  *)
(* thread, and may cancel the thread                                       *)
(***************************************************************************)
\* Operations performed in one run of the model.
MaxOps == 2

\* The links of /r: l and m.
LinkConfigs ==
    { <<<<"/", "e">>, <<".", ".", "/", "e", "/", "p">>>>,
      <<<<"m">>, <<"/", "e", "/", "p">>>>,
      <<<<"d">>, <<"f">>>>,
      <<<<>>, <<>>>> }

OpPaths ==
    { <<"/", "f">>, <<"/", "n">>, <<"/", "d">>, <<"/", "b">>, <<"/", "l">>,
      <<"/", "l", "/", "p">>, <<"/", "m">>, <<"/", ".", ".", "/", "e", "/", "p">>,
      <<"/", "k">> }

Datas == { <<"x">> }

AttrNames == {"read", "write", "list"}

\* What threads require: nothing (a bare starlark.Thread), or what Run requires.
Requireds == { {}, requiredSafety }

\* The Content values of the model: with and without predicates, with a
\* callback that accepts, one that fails, and none.
Contents ==
    { [RootDir |-> RootR, CheckRead |-> NilCheck, CheckWrite |-> NilCheck, OnWrite |-> "ok"],
      [RootDir |-> RootR, CheckRead |-> DenyRead, CheckWrite |-> DenyWrite, OnWrite |-> "ok"],
      [RootDir |-> RootR, CheckRead |-> NilCheck, CheckWrite |-> DenyWrite, OnWrite |-> "err"],
      [RootDir |-> RootR, CheckRead |-> NilCheck, CheckWrite |-> NilCheck, OnWrite |-> "nil"] }

Init ==
    /\ c \in Contents
    /\ fs \in {MakeFS(lc[1], lc[2]) : lc \in LinkConfigs}
    /\ thread \in {[nil |-> FALSE, required |-> rq, cancelled |-> FALSE,
                    steps |-> 0, allocs |-> 0] : rq \in Requireds}
    /\ last = NoOutcome
    /\ nops = 0
    /\ io = NoIO
    /\ run = NoRun

\* c.Attr(name) and c.SafeAttr(thread, name).
Attr ==
    /\ nops < MaxOps
    /\ \E name \in AttrNames \cup {"exec"}, withThread \in BOOLEAN :
         \E r \in {SafeAttr(c, IF withThread THEN thread ELSE NoThread, name)} :
             /\ last' = [NoOutcome EXCEPT !.op = "attr", !.data = name, !.err = r.err,
                                          !.ret = r.ret,
                                          !.pre = IF withThread THEN thread ELSE NoThread]
             /\ thread' = IF withThread THEN r.t ELSE thread
    /\ nops' = nops + 1
    /\ UNCHANGED <<run, c, fs, io>>

Method(name, path, data) ==
    /\ nops < MaxOps
    /\ \E r \in {Call(c, fs, thread, name, path, data)} :
           /\ last' = [NoOutcome EXCEPT !.op = name, !.path = path, !.data = data,
                                        !.err = r.err, !.errpath = r.errpath,
                                        !.ret = r.ret, !.events = r.events,
                                        !.pre = thread, !.mutated = r.f # fs]
           /\ thread' = r.t
           /\ fs' = r.f
    /\ nops' = nops + 1
    /\ UNCHANGED <<run, c, io>>

Read == \E p \in OpPaths : Method("read", p, <<>>)

Write == \E p \in OpPaths, d \in Datas : Method("write", p, d)

List == \E p \in OpPaths : Method("list", p, <<>>)

\* thread.Cancel, by the host.
Cancel ==
    /\ ~thread.cancelled
    /\ thread' = [thread EXCEPT !.cancelled = TRUE]
    /\ UNCHANGED <<run, c, fs, last, nops, io>>

Next == Attr \/ Read \/ Write \/ List \/ Cancel

Spec == Init /\ [][Next]_vars

(***************************************************************************)
(* Properties of RealPath, under SpecPath                                  *)
(***************************************************************************)
\* p is an absolute clean path whose elements start with those of root.
UnderRoot(root, p) ==
    LET rc == RelComps(Clean(root))
        pc == RelComps(p)
    IN  /\ IsAbs(p)
        /\ Clean(p) = p
        /\ Len(rc) <= Len(pc)
        /\ SubSeq(pc, 1, Len(rc)) = rc

\* C1: whatever the root, the path (with "..", through links with absolute
\* or relative targets) and the checks, a path RealPath returns is the root
\* or nested under it; otherwise RealPath returns an error.
ConfinementInvariant ==
    (last.op = "RealPath" /\ last.err = "") => UnderRoot(c.RootDir, last.ret)

\* RealPath has returned a path for a virtual path that names a link with
\* an absolute target.
ConfinementWitness ==
    /\ last.op = "RealPath" /\ last.err = ""
    /\ c.RootDir = RootR
    /\ last.path = <<"/", "l">>
    /\ NodeAt(fs, <<"r", "l">>).target = <<"/", "e">>
    /\ last.ret = <<"/", "r", "/", "l">>

\* The location the operating system reaches from the root joined with the
\* path lies outside the root's directory.
LeadsOutside(root, path) ==
    LET w == Lookup(fs, Join(root, path))
        r == Lookup(fs, root)
    IN  /\ IsAbs(root) /\ IsAbs(path)
        /\ w.err = "" /\ r.err = ""
        /\ ~(Len(r.loc) <= Len(w.loc) /\ SubSeq(w.loc, 1, Len(r.loc)) = r.loc)

\* C2: RealPath fails for every virtual path that leads, through a link in
\* the root, to a location outside the root, whether the link is the last
\* component or a directory on the way, its target absolute or relative; so
\* that read, write and list open no location outside the root.
SymlinkEscapeRejected ==
    (last.op = "RealPath" /\ LeadsOutside(c.RootDir, last.path)) => last.err # ""

IsCheck(e) == e.ev \in {"CheckRead", "CheckWrite"}

\* p is absolute, has no "." and no ".." element and no empty element but
\* a last one.
Normalized(p) ==
    LET cs == Components(p)
    IN  /\ IsAbs(p)
        /\ \A k \in 2..Len(cs) :
             /\ cs[k] # Dot /\ cs[k] # DotDot
             /\ cs[k] = <<>> => k = Len(cs)

Methods == {"read", "write", "list"}

CancelErrs == {"context canceled", "Starlark computation cancelled"}

HasEvent(kinds) == \E i \in 1..Len(last.events) : last.events[i].ev \in kinds

\* The call is one that nothing but the cancellation stands against: the
\* thread permits the method, and the path is one that the predicates
\* accept and that names a file or a directory of the root.
Unhindered ==
    /\ last.pre.required \subseteq contentValueMethods[last.op]
    /\ last.path \in {<<"/", "n">>, <<"/", "d">>, <<"/", "b">>}
    /\ c.CheckRead.nil /\ c.CheckWrite.nil

\* C3: a read, write or list called on a cancelled thread fails with a
\* cancellation error, changes nothing in the filesystem and does not call
\* OnWrite.
CancellationDominates ==
    (last.op \in Methods /\ last.pre.cancelled /\ Unhindered) =>
        /\ last.err \in CancelErrs
        /\ ~last.mutated
        /\ ~HasEvent({"Create", "OnWrite"})

\* C4: an operation whose declared safety does not cover what the thread
\* requires fails with the safety error before it does anything: no
\* predicate is called, the filesystem is neither read nor changed, nothing
\* is charged to the thread, OnWrite is not called.
CapabilityCheckedFirst ==
    (\/ /\ last.op \in Methods
        /\ ~(last.pre.required \subseteq contentValueMethods[last.op])
     \/ /\ last.op = "attr"
        /\ ~(last.pre.required \subseteq SafeAttrSafety))
    => /\ last.err = "safety"
       /\ last.events = <<>>
       /\ ~last.mutated
       /\ thread.steps = last.pre.steps
       /\ thread.allocs = last.pre.allocs

\* A write on the thread of Run has been refused.
CapabilityWitness ==
    /\ last.op = "write"
    /\ last.pre.required = requiredSafety
    /\ last.err = "safety"
    /\ last.path = <<"/", "n">>

\* C5: on the thread of Run, a write to an authorized path inside the root
\* succeeds and leaves the data in the file, and a read that succeeds
\* returns the data of the file: neither is refused for its safety.
RunWriteThenRead ==
    LET w == Lookup(fs, Join(c.RootDir, last.path))
    IN  /\ (/\ last.op = "write"
            /\ last.pre.required = requiredSafety
            /\ ~last.pre.cancelled
            /\ last.path \in {<<"/", "n">>, <<"/", "f">>}
            /\ last.path \notin c.CheckWrite.deny
            /\ c.OnWrite = "ok")
           => /\ last.err = ""
              /\ NodeAt(fs, w.loc) = FileNode(last.data)
        /\ (/\ last.op = "read"
            /\ last.pre.required = requiredSafety
            /\ last.path \in {<<"/", "n">>, <<"/", "f">>})
           => /\ last.err # "safety"
              /\ last.err = "" => last.ret = NodeAt(fs, w.loc).data

\* The predicate the operation asks RealPath to call, when the host set one.
Asked(op) ==
    IF op = "write"
    THEN IF c.CheckWrite.nil THEN {} ELSE {"CheckWrite"}
    ELSE IF c.CheckRead.nil THEN {} ELSE {"CheckRead"}

\* C7: in a read, write or list the predicate is called before the
\* filesystem is touched (readlink, open, create), and when it rejects a
\* path the operation returns the predicate's error, the filesystem is
\* unchanged and OnWrite is not called.
PredicateFirst ==
    last.op \in Methods =>
        /\ \A i \in 1..Len(last.events) :
             (~IsCheck(last.events[i]) /\ Asked(last.op) # {})
             => \E j \in 1..(i - 1) : last.events[j].ev \in Asked(last.op)
        /\ (\E i \in 1..Len(last.events) : IsCheck(last.events[i]) /\ ~last.events[i].ok)
           => /\ last.err \in Asked(last.op)
              /\ ~last.mutated
              /\ ~HasEvent({"Create", "OnWrite"})

\* A write to "/n", which CheckWrite rejects, has failed with nothing but
\* the call of the predicate.
PredicateFirstWitness ==
    /\ last.op = "write"
    /\ last.path = <<"/", "n">>
    /\ last.err = "CheckWrite"
    /\ Len(last.events) = 1
    /\ last.events[1].ev = "CheckWrite"

(***************************************************************************)
(* Properties of SafeReadFile and SafeWriteFile, under SpecIO              *)
(***************************************************************************)
\* C8: SafeReadFile called on a cancelled context returns at once, with
\* context.Canceled and the empty string, and opens nothing.
AlreadyCancelledRead ==
    (io.op = "read" /\ io.startCancelled) =>
        /\ io.pc \in {"start", "done"}
        /\ ~io.opened
        /\ io.handle = "none"
        /\ io.pc = "done" => (io.err = Canceled /\ io.ret = 0)

AlreadyCancelledWitness ==
    io.op = "read" /\ io.startCancelled /\ io.pc = "done" /\ io.err = Canceled

\* C9: when the context is cancelled while SafeReadFile transfers from a
\* source that never ends, SafeReadFile returns context.Canceled, and the
\* empty string.
CancelledTransferReported ==
    (io.op = "read" /\ io.source = "endless" /\ ~io.budget /\ io.cancelDuring
     /\ io.pc = "done")
    => (io.err = Canceled /\ io.ret = 0)

\* C10: SafeReadFile and SafeWriteFile leave no function registered with
\* the context when they return, and the function's f.Close() never runs
\* after they have closed the file and returned.
ObserverNeverLate ==
    /\ io.pc = "done" => io.observer # "registered"
    /\ ~io.lateClose

\* C11: when SafeReadFile, SafeWriteFile or the listing of a directory has
\* returned, whether with a value, an I/O error, a refused charge or a
\* cancellation, the file it opened is closed.
HandlesClosed == io.pc = "done" => io.handle # "open"

HandlesClosedWitness ==
    /\ io.pc = "done" /\ io.op = "list" /\ io.opened /\ io.handle = "closed"
    /\ io.err = StepsError("too many steps")

\* The places in the events of the last operation where ev happened.
EventsOf(ev) == {i \in DOMAIN last.events : last.events[i].ev = ev}

\* The node a real path leads to in the filesystem.
NodeOf(path) == NodeAt(fs, Lookup(fs, path).loc)

\* C12: a write of a ContentValue that has a callback calls OnWrite at most
\* once; it calls it just when fsutil.Create has succeeded, after that
\* call, with the path of the file created, and the file then holds the
\* data; a write that fails before or in fsutil.Create does not call it.
OnWriteOncePersisted ==
    (last.op = "write" /\ c.OnWrite # "nil") =>
        /\ Cardinality(EventsOf("OnWrite")) <= 1
        /\ EventsOf("OnWrite") # {}
              <=> \E i \in EventsOf("Create") : last.events[i].ok
        /\ \A j \in EventsOf("OnWrite") :
              /\ last.events[j - 1].ev = "Create" /\ last.events[j - 1].ok
              /\ last.events[j].path = last.events[j - 1].path
              /\ NodeOf(last.events[j].path) = FileNode(last.data)

OnWriteOnceWitness ==
    /\ last.op = "write" /\ c.OnWrite = "ok" /\ last.err = ""
    /\ EventsOf("OnWrite") # {} /\ last.mutated

\* C13: when OnWrite returns an error, the write returns that error, and
\* the file that was created keeps the data written.
OnWriteErrorPropagated ==
    (last.op = "write" /\ \E j \in EventsOf("OnWrite") : ~last.events[j].ok) =>
        /\ last.err = "OnWrite" /\ last.errpath = <<>>
        /\ \A i \in EventsOf("Create") :
              NodeOf(last.events[i].path) = FileNode(last.data)

OnWriteErrorWitness ==
    /\ last.op = "write" /\ c.OnWrite = "err" /\ last.err = "OnWrite"
    /\ last.mutated /\ EventsOf("Create") # {}

\* The last operation was a call that returned no error and did work:
\* it read or wrote at least one byte, or listed at least one entry.
DidWork ==
    /\ last.op \in Methods /\ last.err = ""
    /\ \/ last.op = "write" /\ Len(last.data) >= 1
       \/ last.op \in {"read", "list"} /\ Len(last.ret) >= 1

\* C14: a read, write or list never lowers the steps or the allocations
\* charged to the thread, whether it fails or not, and one that returns no
\* error and did work raises their sum.
CostMonotone ==
    (last.op \in Methods) =>
        /\ thread.steps >= last.pre.steps
        /\ thread.allocs >= last.pre.allocs
        /\ DidWork => thread.steps + thread.allocs > last.pre.steps + last.pre.allocs

\* C15: a write that returns no error has charged the thread one step for
\* each byte of the data.
WriteChargesSteps ==
    (last.op = "write" /\ last.err = "") =>
        thread.steps - last.pre.steps = Len(last.data)

\* The locations of the entries of the directory at location loc.
Children(loc) ==
    {l \in DOMAIN fs : Len(l) = Len(loc) + 1 /\ SubSeq(l, 1, Len(loc)) = loc}

\* The name under which a listing shows the entry at location l.
Shown(l) ==
    IF fs[l].kind = "dir" THEN <<l[Len(l)], Sep>> ELSE <<l[Len(l)]>>

\* The list returned names every entry of the directory opened once, a
\* directory with the separator after its name and nothing else with it.
ListComplete ==
    (last.op = "list" /\ last.err = "") =>
        \A j \in EventsOf("Open") :
            LET kids == Children(Lookup(fs, last.events[j].path).loc)
            IN  /\ Len(last.ret) = Cardinality(kids)
                /\ \A l \in kids :
                      Cardinality({i \in DOMAIN last.ret : last.ret[i] = Shown(l)}) = 1

\* A listing that follows a listing of the same path, nothing in the
\* filesystem having changed, returns the same list.
ListStable ==
    ( /\ last.op = "list" /\ last.err = ""
      /\ nops' = nops + 1
      /\ last'.op = "list" /\ last'.err = "" /\ last'.path = last.path
      /\ fs' = fs )
    => last'.ret = last.ret

ListChargesPerEntry ==
    (last.op = "list" /\ last.err = "") =>
        /\ thread.steps - last.pre.steps >= Len(last.ret)
        /\ thread.steps - last.pre.steps <= 2 * Len(last.ret)

ListChargesWitness ==
    /\ last.op = "list" /\ last.err = "" /\ Len(last.ret) > ReadDirN
    /\ thread.steps - last.pre.steps = Len(last.ret)

\* The same tree under another root: /q for /r, in a location, in a path
\* and in the filesystem with the targets of its links.
OtherRoot == <<"/", "q">>

MovedLoc(loc) ==
    IF loc # <<>> /\ loc[1] = "r" THEN <<"q">> \o Tail(loc) ELSE loc

MovedPath(p) ==
    IF p = RootR \/ HasPrefix(p, RootR \o <<Sep>>)
    THEN OtherRoot \o SubSeq(p, Len(RootR) + 1, Len(p))
    ELSE p

MovedFS ==
    [l \in {MovedLoc(x) : x \in DOMAIN fs} |->
        LET node == fs[CHOOSE x \in DOMAIN fs : MovedLoc(x) = l]
        IN  [node EXCEPT !.target = MovedPath(@)]]

\* The last operation, had it been called with the tree under the other
\* root.
ElsewhereRun ==
    Call([c EXCEPT !.RootDir = MovedPath(@)], MovedFS, last.pre,
         last.op, last.path, last.data)

\* C18: the error that a read, write or list returns for a failure of the
\* operating system carries the path the script gave, and is the error
\* that the same call returns when the same tree lies under another root.
ErrorHidesRoot ==
    (last.op \in Methods /\ last.errpath # <<>>) =>
        /\ last.errpath = last.path
        /\ ~last.mutated =>
              /\ ElsewhereRun.err = last.err
              /\ ElsewhereRun.errpath = last.errpath

ErrorHidesRootWitness ==
    /\ last.op \in Methods /\ last.errpath # <<>> /\ last.errpath = last.path
    /\ c.RootDir = RootR /\ ~last.mutated
    /\ \E j \in DOMAIN last.events :
          /\ last.events[j].ev \in {"Open", "Create"} /\ ~last.events[j].ok
          /\ last.events[j].path # last.path

\* A path that does not begin at the root of the filesystem.
Relative(p) == p = <<>> \/ p[1] # Sep

\* RealPath has returned an error and nothing else: no path, no call of a
\* predicate, no access to the filesystem.
FailedAtOnce(err) ==
    last.err = err /\ last.ret = <<>> /\ last.events = <<>>

\* C20: RealPath of a ContentValue whose root is relative fails with the
\* internal error, whatever the path; with an absolute root, RealPath of a
\* relative path fails with the error for the path; neither returns a
\* path, calls a predicate or looks at the filesystem.
AbsoluteOrRejected ==
    (last.op = "RealPath") =>
        /\ Relative(c.RootDir) => FailedAtOnce("internal error: relative root")
        /\ (~Relative(c.RootDir) /\ Relative(last.path))
              => FailedAtOnce("content path must be absolute")

AbsoluteOrRejectedWitness ==
    /\ last.op = "RealPath" /\ Relative(c.RootDir) /\ Relative(last.path)
    /\ ~c.CheckRead.nil /\ HasFlag(last.what, CheckRead)
    /\ FailedAtOnce("internal error: relative root")

\* C19: a script that Run has begun to execute leads to Run's return.
RunReturns == (run.pc = "running") ~> (run.pc = "returned")

\* The symbolic links of the filesystem.
Links == {l \in DOMAIN fs : fs[l].kind = "link"}

\* C21: RealPath returns, with a path or an error, whatever the links of
\* the filesystem are: its recursion comes to an end, having read no more
\* links than the filesystem has.
RealPathBounded ==
    (last.op = "RealPath") =>
        /\ last.err # "stack overflow"
        /\ Cardinality({i \in EventsOf("Readlink") : last.events[i].ok})
              <= Cardinality(Links)

\* The virtual path of the location a real path leads to, all links
\* followed, when that location is inside the root; <<>> otherwise.
TargetVirtual(root, rpath) ==
    LET w == Lookup(fs, rpath)
        r == Lookup(fs, root)
    IN  IF /\ w.err = "" /\ r.err = ""
           /\ Len(r.loc) <= Len(w.loc)
           /\ SubSeq(w.loc, 1, Len(r.loc)) = r.loc
        THEN LocPath(SubSeq(w.loc, Len(r.loc) + 1, Len(w.loc)))
        ELSE <<>>

\* A predicate that RealPath is to ask rejects the virtual path.
Rejects(what, vpath) ==
    \/ HasFlag(what, CheckRead) /\ ~c.CheckRead.nil /\ vpath \in c.CheckRead.deny
    \/ HasFlag(what, CheckWrite) /\ ~c.CheckWrite.nil /\ vpath \in c.CheckWrite.deny

\* C22: when the path resolved is a link that leads to a location inside
\* the root, directly or through further links, and a predicate rejects
\* the virtual path of that location, RealPath fails with the error of a
\* predicate, also when the predicate accepts the path of the link.
LinkTargetChecked ==
    (/\ last.op = "RealPath"
     /\ Relative(c.RootDir) = FALSE /\ Relative(last.path) = FALSE
     /\ Readlink(fs, Join(c.RootDir, last.path)).err = ""
     /\ Rejects(last.what, TargetVirtual(c.RootDir, Join(c.RootDir, last.path))))
    => last.err \in {"CheckRead", "CheckWrite"}

PlainAbsolute(p) ==
    /\ ~Relative(p)
    /\ \A i \in DOMAIN Components(p) : Components(p)[i] # DotDot

\* C24: with an absolute root, "/" or written with a trailing separator
\* included, and no links in the filesystem, RealPath with CheckNone accepts
\* every absolute virtual path that has no ".." component, and what it
\* returns for "/" is the root.
ConfinementAcceptsInside ==
    (/\ last.op = "RealPath" /\ last.what = CheckNone
     /\ ~Relative(c.RootDir)
     /\ PlainAbsolute(last.path)
     /\ Links = {})
    => /\ last.err = ""
       /\ last.path = <<Sep>> =>
             Lookup(fs, last.ret).loc = Lookup(fs, c.RootDir).loc

\* C25: a write of a ContentValue that has no OnWrite callback ends with
\* None or with an error value: it does not end in a panic, and so not in
\* one that comes after the data has been written to the file.
WriteWithoutCallbackReturns ==
    (last.op = "write" /\ c.OnWrite = "nil") =>
        last.err # "panic: nil pointer dereference"
====
